---- MODULE Spec2Model ----
(***************************************************************************)
(* Model of the V2 AMM price computation documented in the API reference   *)
(* ("V2 AMM Price Formulas"): raw on-chain amounts are scaled to UI units  *)
(* and turned into the two prices and the two payout multipliers.          *)
(*                                                                         *)
(* JavaScript numbers are modelled as exact rationals extended with NaN,   *)
(* +Infinity and -Infinity, following the IEEE-754 rules the snippet       *)
(* relies on (x/0, 0/0, Infinity arithmetic).  Rounding of finite values   *)
(* is not modelled: finite results are the exact quotients.  Zeros are     *)
(* unsigned: every zero divisor of the snippet is an integer raw amount    *)
(* scaled by SCALE or a sum of squares, which are +0.                      *)
(***************************************************************************)
EXTENDS Integers, Naturals, Sequences, FiniteSets, TLC

VARIABLES marketReservesRaw, yesTokenSupplyRaw, noTokenSupplyRaw,
          priceData, pc, prevRaw, prevData, hasPrev,
          callPc, callRaw, callLocals, callResult,
          market, now, run,
          retry, safeOp

\* the price computation on one market account after another
priceVars == <<marketReservesRaw, yesTokenSupplyRaw, noTokenSupplyRaw,
               priceData, pc, prevRaw, prevData, hasPrev>>

\* concurrent invocations of the price computation
callVars == <<callPc, callRaw, callLocals, callResult>>

\* one market account, the clock, and the command-line script in progress
marketVars == <<market, now>>

\* the skill's helper functions: executeWithRetry, safeMarketOperation
helperVars == <<retry, safeOp>>

vars == <<priceVars, callVars, marketVars, run, helperVars>>

(***************************************************************************)
(* Program constant and bounds of the model.                               *)
(***************************************************************************)
SCALE == 1000000

\* reserves range over -1 .. MaxReserveTokens whole tokens
MaxReserveTokens == 1

\* supplies range over -1 .. MaxSupplyHalves half tokens
MaxSupplyHalves == 2

HalfToken == SCALE \div 2

\* the worked example of the documentation: 1000 collateral, 650 YES, 350 NO
ScenarioReservesRaw == 1000 * SCALE
ScenarioYesRaw == 650 * SCALE
ScenarioNoRaw == 350 * SCALE

ReserveRawValues ==
    {k * SCALE : k \in (-1)..MaxReserveTokens} \cup {ScenarioReservesRaw}

SupplyRawValues ==
    {k * HalfToken : k \in (-1)..MaxSupplyHalves}
        \cup {ScenarioYesRaw, ScenarioNoRaw}

(***************************************************************************)
(* JavaScript numbers.                                                     *)
(***************************************************************************)
Abs(i) == IF i < 0 THEN -i ELSE i

RECURSIVE Gcd(_, _)
Gcd(a, b) == IF b = 0 THEN a ELSE Gcd(b, a % b)

\* the finite number n/d (d # 0) in lowest terms with a positive denominator
Fin(n, d) ==
    LET g == Gcd(Abs(n), Abs(d))
        s == IF d < 0 THEN -1 ELSE 1
    IN  [k |-> "fin", n |-> s * (n \div g), d |-> s * (d \div g)]

NaN == [k |-> "nan", n |-> 0, d |-> 1]
PosInf == [k |-> "inf", n |-> 1, d |-> 1]
NegInf == [k |-> "inf", n |-> -1, d |-> 1]

\* Number(raw) for an integer raw amount
Number(raw) == Fin(raw, 1)

IsFinite(x) == x.k = "fin"
IsNaN(x) == x.k = "nan"
Sign(x) == IF x.n > 0 THEN 1 ELSE IF x.n < 0 THEN -1 ELSE 0
InfOfSign(s) == IF s > 0 THEN PosInf ELSE NegInf

\* a * b
JsMul(a, b) ==
    IF IsNaN(a) \/ IsNaN(b) THEN NaN
    ELSE IF IsFinite(a) /\ IsFinite(b) THEN Fin(a.n * b.n, a.d * b.d)
    ELSE IF Sign(a) = 0 \/ Sign(b) = 0 THEN NaN
    ELSE InfOfSign(Sign(a) * Sign(b))

\* a / b
JsDivNaNOnZero(a, b) ==
    IF IsNaN(a) \/ IsNaN(b) THEN NaN
    ELSE IF IsFinite(a) /\ IsFinite(b)
         THEN IF b.n = 0 THEN NaN
              ELSE Fin(a.n * b.d, a.d * b.n)
    ELSE IF ~IsFinite(a) /\ ~IsFinite(b) THEN NaN
    ELSE IF IsFinite(a) THEN Fin(0, 1)
    ELSE InfOfSign(Sign(a) * (IF Sign(b) < 0 THEN -1 ELSE 1))

JsDiv(a, b) ==
    IF IsNaN(a) \/ IsNaN(b) THEN NaN
    ELSE IF IsFinite(a) /\ IsFinite(b)
         THEN IF b.n = 0
              THEN IF a.n = 0 THEN NaN ELSE InfOfSign(Sign(a))
              ELSE Fin(a.n * b.d, a.d * b.n)
    ELSE IF ~IsFinite(a) /\ ~IsFinite(b) THEN NaN
    ELSE IF IsFinite(a) THEN Fin(0, 1)
    ELSE InfOfSign(Sign(a) * (IF Sign(b) < 0 THEN -1 ELSE 1))

\* a + b
JsAdd(a, b) ==
    IF IsNaN(a) \/ IsNaN(b) THEN NaN
    ELSE IF IsFinite(a) /\ IsFinite(b)
         THEN LET g == Gcd(a.d, b.d)
              IN  Fin(a.n * (b.d \div g) + b.n * (a.d \div g),
                      (a.d \div g) * b.d)
    ELSE IF IsFinite(a) THEN b
    ELSE IF IsFinite(b) THEN a
    ELSE IF Sign(a) = Sign(b) THEN a ELSE NaN

\* Math.pow(x, 2)
MathPow2(x) == JsMul(x, x)

\* a <= b and a < b as JavaScript compares numbers (false when either is NaN)
JsLe(a, b) ==
    IF IsNaN(a) \/ IsNaN(b) THEN FALSE
    ELSE IF IsFinite(a) /\ IsFinite(b) THEN a.n * b.d <= b.n * a.d
    ELSE IF IsFinite(a) THEN Sign(b) > 0
    ELSE IF IsFinite(b) THEN Sign(a) < 0
    ELSE Sign(a) <= Sign(b)

JsLt(a, b) == JsLe(a, b) /\ a # b

Zero == Fin(0, 1)
One == Fin(1, 1)
Two == Fin(2, 1)

(***************************************************************************)
(* The price formulas, one operator per constant of the snippet.           *)
(***************************************************************************)
\* Number(raw) / SCALE
UiAmount(raw) == JsDiv(Number(raw), Number(SCALE))

denominatorSquareOfSum(yes, no) == MathPow2(JsAdd(yes, no))

denominator(yes, no) == JsAdd(MathPow2(yes), MathPow2(no))

yesPriceReservesAdded(reserves, yes, den) == JsDiv(JsAdd(reserves, yes), den)

yesPrice(reserves, yes, den) == JsDiv(JsMul(reserves, yes), den)

noPriceWithoutReserves(reserves, no, den) == JsDiv(no, den)

noPrice(reserves, no, den) == JsDiv(JsMul(reserves, no), den)

yesMultiplierUnsquaredDivisor(yes, no) == JsAdd(One, JsDiv(MathPow2(no), yes))

yesMultiplierNoOffset(yes, no) == MathPow2(JsDiv(no, yes))

yesMultiplier(yes, no) == JsAdd(One, MathPow2(JsDiv(no, yes)))

noMultiplierUnsquaredDivisor(yes, no) == JsAdd(One, JsDiv(MathPow2(yes), no))

noMultiplierOperandsSwapped(yes, no) == JsAdd(One, MathPow2(JsDiv(no, yes)))

noMultiplier(yes, no) == JsAdd(One, MathPow2(JsDiv(yes, no)))

\* every constant the snippet binds; no statement of it can throw
PriceDataOf(reservesRaw, yesRaw, noRaw) ==
    LET reserves == UiAmount(reservesRaw)
        yes == UiAmount(yesRaw)
        no == UiAmount(noRaw)
        den == denominator(yes, no)
    IN  [error |-> "none",
         marketReserves |-> reserves,
         yesTokenSupply |-> yes,
         noTokenSupply |-> no,
         denominator |-> den,
         yesPrice |-> yesPrice(reserves, yes, den),
         noPrice |-> noPrice(reserves, no, den),
         yesMultiplier |-> yesMultiplier(yes, no),
         noMultiplier |-> noMultiplier(yes, no)]

\* value of priceData while nothing has been computed for the snapshot
NoPriceData ==
    [error |-> "pending", marketReserves |-> NaN, yesTokenSupply |-> NaN,
     noTokenSupply |-> NaN, denominator |-> NaN, yesPrice |-> NaN,
     noPrice |-> NaN, yesMultiplier |-> NaN, noMultiplier |-> NaN]

RawOf == <<marketReservesRaw, yesTokenSupplyRaw, noTokenSupplyRaw>>

(***************************************************************************)
(* Concurrent invocations.  Every invocation binds the constants of the    *)
(* snippet in a scope of its own; callLocals is indexed by scope.          *)
(***************************************************************************)
\* the number of concurrent invocations
MaxCallers == 2

Callers == 1..MaxCallers

CallSnapshots ==
    {<<r, y, n>> : r \in {0, SCALE}, y \in {0, SCALE},
                   n \in {0, HalfToken, SCALE}}

NoRaw == <<0, 0, 0>>

\* all invocations bind their constants in one module-level scope
ScopeOfModule(c) == 1

\* const declarations are local to the invocation that executes them
ScopeOf(c) == c

CallsIdle ==
    /\ callPc = [c \in Callers |-> "idle"]
    /\ callRaw = [c \in Callers |-> NoRaw]
    /\ callLocals = [c \in Callers |-> NoPriceData]
    /\ callResult = [c \in Callers |-> NoPriceData]

(***************************************************************************)
(* Rest values of the market account, the clock and the script run, and    *)
(* of the price computation, for the specifications that do not move them. *)
(***************************************************************************)
\* no market account has been created
NoMarket ==
    [state |-> "NONE", oracle |-> "global", creation_time |-> 0,
     end_time |-> 0, resolvable |-> FALSE, resolved |-> FALSE,
     winning_token_id |-> 0, market_reserves |-> 0,
     yes_token_supply_minted |-> 0, no_token_supply_minted |-> 0]

\* what getMarketInfo returned to the script (nothing fetched yet)
NoInfo ==
    [resolved |-> FALSE, resolvable |-> FALSE, endTime |-> 0,
     winningTokenId |-> 0]

\* the arguments of create-market.ts (none given)
NoArgs ==
    [question |-> "", durationHours |-> 0, liquidity |-> "0",
     collateral |-> "USDC", decimals |-> "", marketType |-> "v2",
     endTime |-> 0, liquidityAmount |-> 0]

\* no script is running
NoRun ==
    [script |-> "none", pc |-> "idle", wallet |-> "none", flags |-> {},
     marketArg |-> "absent", outcome |-> "", amount |-> "",
     fetched |-> FALSE, info |-> NoInfo, startedAt |-> 0,
     call |-> "none", yesSide |-> FALSE, traded |-> FALSE,
     failed |-> "none", error |-> "", exitCode |-> -1, args |-> NoArgs,
     printed |-> "", amountRaw |-> [m |-> 0, e |-> 0]]

MarketIdle == market = NoMarket /\ now = 0

\* an attempt's result or error (none yet)
NoSettlement == [kind |-> "none", attempt |-> 0]

\* executeWithRetry not called
NoRetry ==
    [pc |-> "idle", maxRetries |-> 0, attempt |-> 0, inFlight |-> {},
     lastError |-> NoSettlement, races |-> <<>>, waited |-> <<>>,
     outcome |-> "none", value |-> NoSettlement]

\* safeMarketOperation not called
NoSafeOp ==
    [pc |-> "idle", thrown |-> "none", message |-> "",
     programErrorCode |-> -1, threw |-> "none", ok |-> FALSE, code |-> "",
     retryable |-> FALSE]

HelpersIdle == retry = NoRetry /\ safeOp = NoSafeOp

RunIdle == run = NoRun

PriceIdle ==
    /\ marketReservesRaw = 0
    /\ yesTokenSupplyRaw = 0
    /\ noTokenSupplyRaw = 0
    /\ priceData = NoPriceData
    /\ pc = "fetched"
    /\ prevRaw = NoRaw
    /\ prevData = NoPriceData
    /\ hasPrev = FALSE

(***************************************************************************)
(* State machine: a market account is read, its prices are computed, the   *)
(* next account state is read.  prevRaw/prevData remember the previous     *)
(* computation so that two results can be related.                         *)
(***************************************************************************)
Init ==
    /\ marketReservesRaw \in ReserveRawValues
    /\ yesTokenSupplyRaw \in SupplyRawValues
    /\ noTokenSupplyRaw \in SupplyRawValues
    /\ priceData = NoPriceData
    /\ pc = "fetched"
    /\ prevRaw = <<0, 0, 0>>
    /\ prevData = NoPriceData
    /\ hasPrev = FALSE
    /\ CallsIdle
    /\ MarketIdle
    /\ RunIdle
    /\ HelpersIdle

ComputePrices ==
    /\ pc = "fetched"
    /\ priceData' = PriceDataOf(marketReservesRaw, yesTokenSupplyRaw,
                                noTokenSupplyRaw)
    /\ pc' = "priced"
    /\ UNCHANGED <<marketReservesRaw, yesTokenSupplyRaw, noTokenSupplyRaw,
                   prevRaw, prevData, hasPrev>>
    /\ UNCHANGED <<callVars, marketVars, run, helperVars>>

FetchMarket ==
    /\ pc = "priced"
    /\ \E r \in ReserveRawValues, y \in SupplyRawValues, n \in SupplyRawValues :
          /\ marketReservesRaw' = r
          /\ yesTokenSupplyRaw' = y
          /\ noTokenSupplyRaw' = n
    /\ prevRaw' = RawOf
    /\ prevData' = priceData
    /\ hasPrev' = TRUE
    /\ priceData' = NoPriceData
    /\ pc' = "fetched"
    /\ UNCHANGED <<callVars, marketVars, run, helperVars>>

Next == ComputePrices \/ FetchMarket

Spec == Init /\ [][Next]_vars

(***************************************************************************)
(* Vocabulary of the properties.                                           *)
(***************************************************************************)
Priced == pc = "priced"

\* the snapshot is in its declared domain: no field is negative
ValidSnapshot ==
    /\ marketReservesRaw >= 0
    /\ yesTokenSupplyRaw >= 0
    /\ noTokenSupplyRaw >= 0

BothSuppliesPositive == yesTokenSupplyRaw > 0 /\ noTokenSupplyRaw > 0

IsScenario ==
    RawOf = <<ScenarioReservesRaw, ScenarioYesRaw, ScenarioNoRaw>>

PriceSum == JsAdd(priceData.yesPrice, priceData.noPrice)

\* C1: with zero reserves and both supplies positive the computation ends
\* normally and both prices are exactly 0.
C1_ZeroReservesZeroPrices ==
    (Priced /\ marketReservesRaw = 0 /\ BothSuppliesPositive)
        => /\ priceData.error = "none"
           /\ priceData.yesPrice = Zero
           /\ priceData.noPrice = Zero

C1_Witness ==
    /\ Priced
    /\ marketReservesRaw = 0
    /\ yesTokenSupplyRaw = 2 * HalfToken
    /\ noTokenSupplyRaw = HalfToken
    /\ priceData.yesPrice = Zero

\* C2: with both supplies zero (reserves non-negative) the computation fails
\* with DomainError and yields no NaN price.
C2_ZeroSuppliesDomainError ==
    (Priced /\ marketReservesRaw >= 0
            /\ yesTokenSupplyRaw = 0 /\ noTokenSupplyRaw = 0)
        => /\ priceData.error = "DomainError"
           /\ ~IsNaN(priceData.yesPrice)
           /\ ~IsNaN(priceData.noPrice)

\* C3: whenever a field of the snapshot is negative the computation fails
\* with InvalidArgument.
C3_NegativeInputInvalidArgument ==
    (Priced /\ ~ValidSnapshot) => priceData.error = "InvalidArgument"

\* C4: with equal positive supplies the two prices are equal and both
\* multipliers are 2.
C4_Symmetry ==
    (Priced /\ ValidSnapshot /\ yesTokenSupplyRaw = noTokenSupplyRaw
            /\ yesTokenSupplyRaw > 0)
        => /\ priceData.yesPrice = priceData.noPrice
           /\ priceData.yesMultiplier = Two
           /\ priceData.noMultiplier = Two

C4_Witness ==
    /\ Priced
    /\ marketReservesRaw > 0
    /\ yesTokenSupplyRaw = 2 * HalfToken
    /\ noTokenSupplyRaw = 2 * HalfToken
    /\ priceData.noMultiplier = Two

\* the current supplies are the previous ones scaled by a positive constant
SuppliesScaled ==
    /\ hasPrev
    /\ prevRaw[2] > 0 /\ prevRaw[3] > 0
    /\ BothSuppliesPositive
    /\ JsMul(prevData.yesTokenSupply, priceData.noTokenSupply)
         = JsMul(priceData.yesTokenSupply, prevData.noTokenSupply)

\* C5: scaling both positive supplies by a positive constant, with any
\* reserves before and after, leaves both multipliers unchanged.
C5_MultiplierScaleInvariance ==
    (Priced /\ SuppliesScaled)
        => /\ priceData.yesMultiplier = prevData.yesMultiplier
           /\ priceData.noMultiplier = prevData.noMultiplier

C5_Witness ==
    /\ Priced
    /\ SuppliesScaled
    /\ prevRaw[2] = HalfToken /\ prevRaw[3] = HalfToken
    /\ yesTokenSupplyRaw = 2 * HalfToken
    /\ marketReservesRaw # prevRaw[1]
    /\ priceData.noMultiplier = prevData.noMultiplier

\* C6: for every valid snapshot with a quote (supplies not both zero) both
\* prices lie in [0,1].
C6_PricesInUnitRange ==
    (Priced /\ ValidSnapshot
            /\ ~(yesTokenSupplyRaw = 0 /\ noTokenSupplyRaw = 0))
        => /\ JsLe(Zero, priceData.yesPrice) /\ JsLe(priceData.yesPrice, One)
           /\ JsLe(Zero, priceData.noPrice) /\ JsLe(priceData.noPrice, One)

\* C7: with both supplies positive both multipliers are at least 1.
C7_MultipliersAtLeastOne ==
    (Priced /\ ValidSnapshot /\ BothSuppliesPositive)
        => /\ JsLe(One, priceData.yesMultiplier)
           /\ JsLe(One, priceData.noMultiplier)

C7_Witness ==
    /\ Priced
    /\ ValidSnapshot
    /\ yesTokenSupplyRaw = 2 * HalfToken
    /\ noTokenSupplyRaw = HalfToken
    /\ JsLt(One, priceData.yesMultiplier)
    /\ JsLt(priceData.yesMultiplier, Two)

\* x is v to four decimals: |x - v/10000| <= 1/20000
About(x, v) ==
    /\ JsLe(Fin(10 * v - 5, 100000), x)
    /\ JsLe(x, Fin(10 * v + 5, 100000))

C9_ZeroSupplyMultiplierIsInfinity ==
    /\ (Priced /\ yesTokenSupplyRaw = 0 /\ noTokenSupplyRaw # 0)
          => priceData.yesMultiplier = PosInf /\ priceData.error = "none"
    /\ (Priced /\ noTokenSupplyRaw = 0 /\ yesTokenSupplyRaw # 0)
          => priceData.noMultiplier = PosInf /\ priceData.error = "none"

C9_Witness ==
    /\ Priced
    /\ yesTokenSupplyRaw = 0
    /\ noTokenSupplyRaw = 2 * HalfToken
    /\ priceData.yesMultiplier = PosInf
    /\ hasPrev
    /\ prevRaw[2] # 0 /\ prevRaw[3] = 0
    /\ prevData.noMultiplier = PosInf

\* C10: with both supplies positive the two prices sum to
\* reserves*(yes + no)/(yes^2 + no^2); the sum is 1 exactly when
\* reserves*(yes + no) = yes^2 + no^2, and it differs from 1 in the scenario
\* 1000/650/350.
C10_PriceSumFormula ==
    (Priced /\ ValidSnapshot /\ BothSuppliesPositive)
        => LET r == UiAmount(marketReservesRaw)
               y == UiAmount(yesTokenSupplyRaw)
               n == UiAmount(noTokenSupplyRaw)
               weighted == JsMul(r, JsAdd(y, n))
               squares == JsAdd(JsMul(y, y), JsMul(n, n))
           IN  /\ PriceSum = JsDiv(weighted, squares)
               /\ (PriceSum = One) <=> (weighted = squares)
               /\ IsScenario => PriceSum # One

C10_Witness ==
    /\ Priced
    /\ IsScenario
    /\ PriceSum = Fin(1000000, 545000)
    /\ PriceSum # One

C10_WitnessSumOne ==
    /\ Priced
    /\ ValidSnapshot
    /\ BothSuppliesPositive
    /\ PriceSum = One

(***************************************************************************)
(* Concurrent invocations of the price computation.  An invocation runs    *)
(* the statements of the snippet in order; between two statements any      *)
(* other invocation may run.                                               *)
(***************************************************************************)
InitCalls ==
    PriceIdle /\ CallsIdle /\ MarketIdle /\ RunIdle /\ HelpersIdle

\* the constants of the scope invocation c binds into
LocalsOf(c) == callLocals[ScopeOf(c)]

BindLocals(c, fields) ==
    callLocals' = [callLocals EXCEPT ![ScopeOf(c)] = fields]

\* an invocation starts on a snapshot: a fresh scope, nothing bound yet
CallStart(c) ==
    /\ callPc[c] = "idle"
    /\ \E raw \in CallSnapshots : callRaw' = [callRaw EXCEPT ![c] = raw]
    /\ BindLocals(c, NoPriceData)
    /\ callResult' = [callResult EXCEPT ![c] = NoPriceData]
    /\ callPc' = [callPc EXCEPT ![c] = "scale"]

\* marketReserves, yesTokenSupply, noTokenSupply
CallScale(c) ==
    /\ callPc[c] = "scale"
    /\ BindLocals(c, [LocalsOf(c) EXCEPT
                        !.marketReserves = UiAmount(callRaw[c][1]),
                        !.yesTokenSupply = UiAmount(callRaw[c][2]),
                        !.noTokenSupply = UiAmount(callRaw[c][3])])
    /\ callPc' = [callPc EXCEPT ![c] = "denominator"]
    /\ UNCHANGED <<callRaw, callResult>>

\* denominator
CallDenominator(c) ==
    /\ callPc[c] = "denominator"
    /\ BindLocals(c, [LocalsOf(c) EXCEPT
                        !.denominator =
                            denominator(LocalsOf(c).yesTokenSupply,
                                        LocalsOf(c).noTokenSupply)])
    /\ callPc' = [callPc EXCEPT ![c] = "prices"]
    /\ UNCHANGED <<callRaw, callResult>>

\* yesPrice, noPrice
CallPrices(c) ==
    /\ callPc[c] = "prices"
    /\ BindLocals(c, [LocalsOf(c) EXCEPT
                        !.yesPrice = yesPrice(LocalsOf(c).marketReserves,
                                              LocalsOf(c).yesTokenSupply,
                                              LocalsOf(c).denominator),
                        !.noPrice = noPrice(LocalsOf(c).marketReserves,
                                            LocalsOf(c).noTokenSupply,
                                            LocalsOf(c).denominator)])
    /\ callPc' = [callPc EXCEPT ![c] = "multipliers"]
    /\ UNCHANGED <<callRaw, callResult>>

\* yesMultiplier, noMultiplier; the invocation ends with every constant bound
CallMultipliers(c) ==
    /\ callPc[c] = "multipliers"
    /\ LET done == [LocalsOf(c) EXCEPT
                      !.yesMultiplier =
                          yesMultiplier(LocalsOf(c).yesTokenSupply,
                                        LocalsOf(c).noTokenSupply),
                      !.noMultiplier =
                          noMultiplier(LocalsOf(c).yesTokenSupply,
                                       LocalsOf(c).noTokenSupply),
                      !.error = "none"]
       IN  /\ BindLocals(c, done)
           /\ callResult' = [callResult EXCEPT ![c] = done]
    /\ callPc' = [callPc EXCEPT ![c] = "done"]
    /\ UNCHANGED callRaw

\* the caller has taken the result; the invocation's scope is gone
CallReturn(c) ==
    /\ callPc[c] = "done"
    /\ callPc' = [callPc EXCEPT ![c] = "idle"]
    /\ UNCHANGED <<callRaw, callLocals, callResult>>

NextCalls ==
    /\ \E c \in Callers :
          \/ CallStart(c)
          \/ CallScale(c)
          \/ CallDenominator(c)
          \/ CallPrices(c)
          \/ CallMultipliers(c)
          \/ CallReturn(c)
    /\ UNCHANGED <<priceVars, marketVars, run, helperVars>>

SpecCalls == InitCalls /\ [][NextCalls]_vars

\* C11: under every interleaving of concurrent invocations, each finished
\* invocation holds exactly the result the computation gives when run alone
\* on its snapshot, and invocations on the same snapshot hold equal results.
C11_CallsDoNotInterfere ==
    /\ \A c \in Callers :
          callPc[c] = "done"
              => callResult[c] = PriceDataOf(callRaw[c][1], callRaw[c][2],
                                             callRaw[c][3])
    /\ \A c, d \in Callers :
          (callPc[c] = "done" /\ callPc[d] = "done" /\ callRaw[c] = callRaw[d])
              => callResult[c] = callResult[d]

\* two invocations on different snapshots overlapped and the first finished
\* while the second was between its statements
C11_Witness ==
    /\ callPc[1] = "done"
    /\ callPc[2] = "prices"
    /\ callRaw[1] = <<SCALE, SCALE, HalfToken>>
    /\ callRaw[2] = <<SCALE, 0, SCALE>>
    /\ callResult[1].yesPrice = Fin(4, 5)

(***************************************************************************)
(* The market lifecycle as the skill documents it (state diagram and       *)
(* transition rules), and the scripts settle.ts, redeem.ts and trade.ts    *)
(* acting on one market.  Time is counted in ticks of TickMinutes.         *)
(***************************************************************************)
\* setMarketResolvable must be called within 15 minutes of creation
ActivationWindowMinutes == 15

TickMinutes == ActivationWindowMinutes \div 3

ActivationWindow == ActivationWindowMinutes \div TickMinutes

\* the clock stops at MaxTime
MaxTime == 4

\* reserves and supplies stay within 0..MaxPool
MaxPool == 2

EndTimes == {ActivationWindow + 1}

\* PRIVATE_KEY: unset, the market's designated oracle, or any other wallet
Wallets == {"none", "oracle", "other"}

LifecycleOrder == <<"CREATED", "ACTIVE", "ENDED", "RESOLVED", "CLAIMED">>

\* position of a lifecycle state in the documented progression
Rank(st) == CHOOSE i \in 1..5 : LifecycleOrder[i] = st

\* trading is live until the timestamp reaches endTime
LiveState(t, endTime) == IF t >= endTime THEN "ENDED" ELSE "ACTIVE"

\* a market as createMarket / createMarketWithCustomOracle leaves it
CreatedMarket(oracle, endTime) ==
    [state |-> "CREATED", oracle |-> oracle, creation_time |-> 0,
     end_time |-> endTime, resolvable |-> FALSE, resolved |-> FALSE,
     winning_token_id |-> 0, market_reserves |-> 1,
     yes_token_supply_minted |-> 1, no_token_supply_minted |-> 1]

InitMarket ==
    /\ PriceIdle
    /\ CallsIdle
    /\ now = 0
    /\ \E o \in {"global", "custom"}, e \in EndTimes :
          market = CreatedMarket(o, e)
    /\ run = NoRun
    /\ HelpersIdle

\* trading.getMarketInfo(market)
MarketInfo ==
    [resolved |-> market.resolved, resolvable |-> market.resolvable,
     endTime |-> market.end_time, winningTokenId |-> market.winning_token_id]

Activated == [market EXCEPT !.state = LiveState(now, market.end_time),
                            !.resolvable = TRUE]

\* a standard V2 market goes live once created (global oracle)
TradingOpens ==
    /\ market.state = "CREATED"
    /\ market.oracle = "global"
    /\ now < market.end_time
    /\ market' = Activated
    /\ UNCHANGED <<priceVars, callVars, now, run, helperVars>>

\* the timestamp advances; ACTIVE becomes ENDED when it reaches endTime
\* (a finished run is cleared first: run then describes the exit instant)
Tick ==
    /\ now < MaxTime
    /\ run.pc # "exited"
    /\ now' = now + 1
    /\ market' = IF market.state = "ACTIVE"
                 THEN [market EXCEPT !.state = LiveState(now + 1, market.end_time)]
                 ELSE market
    /\ UNCHANGED <<priceVars, callVars, run, helperVars>>

\* setMarketResolvable(market, true): custom oracle only, within the window
SetResolvableAcceptedAnyTime(w) ==
    /\ market.oracle = "custom"
    /\ w = "oracle"
    /\ market.state = "CREATED"

SetResolvableAccepted(w) ==
    /\ market.oracle = "custom"
    /\ w = "oracle"
    /\ market.state = "CREATED"
    /\ now - market.creation_time <= ActivationWindow

\* settleMarket: oracle only, only after endTime, once
SettleAcceptedWhileActive(w) ==
    /\ market.state \in {"ACTIVE", "ENDED"}
    /\ w = "oracle"

SettleAccepted(w) ==
    /\ market.state = "ENDED"
    /\ w = "oracle"
    /\ now >= market.end_time

SettleError(w) ==
    IF w # "oracle" THEN "Oracle mismatch"
    ELSE IF now < market.end_time THEN "Market not ended"
    ELSE "PROGRAM_ERROR"

Settled(yesWinner) ==
    [market EXCEPT !.state = "RESOLVED", !.resolved = TRUE,
                   !.winning_token_id = IF yesWinner THEN 1 ELSE 2]

\* buy / sell: only while trading is live
TradeAcceptedAfterEnd ==
    /\ market.state \in {"ACTIVE", "ENDED"}

TradeAccepted ==
    /\ market.state = "ACTIVE"
    /\ now < market.end_time

TradeError ==
    IF now >= market.end_time THEN "Market not tradable: ended"
    ELSE "PROGRAM_ERROR"

Cap(n) == IF n > MaxPool THEN MaxPool ELSE IF n < 0 THEN 0 ELSE n

Bought(yes) ==
    [market EXCEPT
       !.market_reserves = Cap(@ + 1),
       !.yes_token_supply_minted = IF yes THEN Cap(@ + 1) ELSE @,
       !.no_token_supply_minted = IF yes THEN @ ELSE Cap(@ + 1)]

Sold(yes) ==
    [market EXCEPT
       !.market_reserves = Cap(@ - 1),
       !.yes_token_supply_minted = IF yes THEN Cap(@ - 1) ELSE @,
       !.no_token_supply_minted = IF yes THEN @ ELSE Cap(@ - 1)]

\* redeemPosition: after settlement, available forever after resolution
RedeemAccepted == market.resolved

Redeemed == [market EXCEPT !.state = "CLAIMED"]

\* process.exit(code), or the end of main
Exit(r, code, failed, error) ==
    [r EXCEPT !.pc = "exited", !.exitCode = code, !.failed = failed,
              !.error = error]

\* the script has read the market and goes on to its SDK call
Calling(r, call, yes) == [r EXCEPT !.pc = "call", !.call = call, !.yesSide = yes]

\* command lines tried: --help alone, a missing or malformed --market alone,
\* and every combination of the other flags with a well-formed --market
ArgLines(optional) ==
    {[flags |-> {"--help"}, marketArg |-> "absent"]}
        \cup {[flags |-> {}, marketArg |-> m] : m \in {"absent", "invalid"}}
        \cup {[flags |-> f, marketArg |-> "valid"] : f \in SUBSET optional}

OutcomeValues == {"YES", "NO", "MAYBE"}

AmountValues == {"0", "10", "abc"}

\* a script starts: its arguments as parseArgs returns them
Started(script, line, wallet, outcome, amount) ==
    [NoRun EXCEPT !.script = script, !.wallet = wallet, !.flags = line.flags,
                  !.marketArg = line.marketArg, !.outcome = outcome,
                  !.amount = amount, !.startedAt = now]

(***************************************************************************)
(* settle.ts                                                               *)
(***************************************************************************)
\* parseArgs: outcome: parsed.outcome || "YES"
SettleOutcomeArg(flags, value) ==
    IF "--outcome" \in flags THEN value ELSE "YES"

\* if (!args.status && !process.env.PRIVATE_KEY)
SettleKeyMissing(flags, wallet) == "--status" \notin flags /\ wallet = "none"

\* if (now < endTime)
CannotSettleYetInverted(nowSec, endTime) == nowSec > endTime

CannotSettleYet(nowSec, endTime) == nowSec < endTime

\* main up to the settleMarket call
\* if (marketInfo.resolved)
AlreadyResolvedByResolvable(info) == ~info.resolvable

AlreadyResolved(info) == info.resolved

\* winningTokenId: 0 = none, 1 = yes, 2 = no
WinnerName(winningTokenId) ==
    IF winningTokenId = 1 THEN "YES"
    ELSE IF winningTokenId = 2 THEN "NO" ELSE "NONE"

\* the canSettle value of --status
CanSettle(t, info) == t >= info.endTime /\ info.resolvable

CanSettleText(t, info) ==
    IF CanSettle(t, info) THEN "Can Settle: true" ELSE "Can Settle: false"

SettleMain(line, value, wallet, rpcOk) ==
    LET r0 == Started("settle", line, wallet,
                      SettleOutcomeArg(line.flags, value), "")
        r1 == [r0 EXCEPT !.fetched = TRUE, !.info = MarketInfo]
    IN  IF "--help" \in line.flags THEN Exit(r0, 0, "none", "")
        ELSE IF line.marketArg = "absent"
             THEN Exit(r0, 1, "validation", "--market is required")
        ELSE IF line.marketArg = "invalid"
             THEN Exit(r0, 1, "validation", "Invalid market address")
        ELSE IF SettleKeyMissing(line.flags, wallet)
             THEN Exit(r0, 1, "validation", "PRIVATE_KEY is required")
        ELSE IF ~rpcOk THEN Exit(r0, 1, "fetch", "TRANSPORT_ERROR")
        ELSE IF AlreadyResolved(r1.info)
             THEN Exit([r1 EXCEPT !.printed = WinnerName(r1.info.winningTokenId)],
                       0, "none", "")
        ELSE IF "--status" \in line.flags
             THEN Exit([r1 EXCEPT !.printed = CanSettleText(now, r1.info)],
                       0, "none", "")
        ELSE IF r1.outcome \notin {"YES", "NO"}
             THEN Exit(r1, 1, "validation", "--outcome must be YES or NO")
        ELSE IF CannotSettleYet(now, r1.info.endTime)
             THEN Exit(r1, 1, "validation", "Cannot settle yet")
        ELSE Calling(r1, "settleMarket", r1.outcome = "YES")

SettleRun ==
    /\ run.pc = "idle"
    /\ \E line \in ArgLines({"--status", "--outcome"}), value \in OutcomeValues,
          wallet \in Wallets, rpcOk \in BOOLEAN :
          run' = SettleMain(line, value, wallet, rpcOk)
    /\ UNCHANGED <<priceVars, callVars, marketVars, helperVars>>

\* client.settleMarket({market, yesWinner}) as it reaches the program
SettleMarketCall(r, rpcOk) ==
    IF rpcOk /\ SettleAccepted(r.wallet)
    THEN /\ market' = Settled(r.yesSide)
         /\ run' = Exit(r, 0, "none", "")
    ELSE /\ market' = market
         /\ run' = Exit(r, 1, "sdk",
                        IF ~rpcOk THEN "TRANSPORT_ERROR"
                        ELSE SettleError(r.wallet))

\* await client.settleMarket(...), then the end of main or the catch block
SettleCall ==
    /\ run.script = "settle"
    /\ run.pc = "call"
    /\ \E rpcOk \in BOOLEAN : SettleMarketCall(run, rpcOk)
    /\ UNCHANGED <<priceVars, callVars, now, helperVars>>

(***************************************************************************)
(* redeem.ts                                                               *)
(***************************************************************************)
\* if (!marketInfo.resolved)
NotSettledByResolvable(info) == ~info.resolvable

NotSettled(info) == ~info.resolved

RedeemMain(line, wallet, rpcOk) ==
    LET r0 == Started("redeem", line, wallet, "", "")
        r1 == [r0 EXCEPT !.fetched = TRUE, !.info = MarketInfo]
    IN  IF "--help" \in line.flags THEN Exit(r0, 0, "none", "")
        ELSE IF line.marketArg = "absent"
             THEN Exit(r0, 1, "validation", "--market is required")
        ELSE IF wallet = "none"
             THEN Exit(r0, 1, "validation", "PRIVATE_KEY is required")
        ELSE IF line.marketArg = "invalid"
             THEN Exit(r0, 1, "validation", "Invalid market address")
        ELSE IF ~rpcOk THEN Exit(r0, 1, "fetch", "TRANSPORT_ERROR")
        ELSE IF NotSettled(r1.info)
             THEN Exit(r1, 1, "validation", "Market is not yet settled")
        ELSE Calling(r1, "redeemPosition", FALSE)

RedeemRun ==
    /\ run.pc = "idle"
    /\ \E line \in ArgLines({}), wallet \in Wallets, rpcOk \in BOOLEAN :
          run' = RedeemMain(line, wallet, rpcOk)
    /\ UNCHANGED <<priceVars, callVars, marketVars, helperVars>>

\* await client.redeemPosition(market); the wallet may hold no winning tokens
RedeemCall ==
    /\ run.script = "redeem"
    /\ run.pc = "call"
    /\ \E rpcOk \in BOOLEAN, holdsWinning \in BOOLEAN :
          IF rpcOk /\ RedeemAccepted /\ holdsWinning
          THEN /\ market' = Redeemed
               /\ run' = Exit(run, 0, "none", "")
          ELSE /\ market' = market
               /\ run' = Exit(run, 1, "sdk",
                              IF ~rpcOk THEN "TRANSPORT_ERROR"
                              ELSE IF ~RedeemAccepted THEN "Market not settled"
                              ELSE "PROGRAM_ERROR")
    /\ UNCHANGED <<priceVars, callVars, now, helperVars>>

\* parseInt(s, 10): the leading integer of s, NaN when there is none
ParseInt(s) ==
    CASE s \in {"24", "24h"} -> Fin(24, 1)
      [] s = "6" -> Fin(6, 1)
      [] s = "9" -> Fin(9, 1)
      [] s = "0" -> Zero
      [] s = "-1" -> Fin(-1, 1)
      [] s = "-5" -> Fin(-5, 1)
      [] OTHER -> NaN

\* parseFloat(s): the leading decimal number of s, NaN when there is none
ParseFloat(s) ==
    CASE s \in {"1", "1usdc"} -> One
      [] s = "0.5" -> Fin(1, 2)
      [] s = "10" -> Fin(10, 1)
      [] s = "0" -> Zero
      [] s = "-5" -> Fin(-5, 1)
      [] OTHER -> NaN

(***************************************************************************)
(* trade.ts                                                                *)
(***************************************************************************)
\* parseArgs: decimals: parsed.decimals ?? 6 ("" : --decimals not given)
TradeDecimalsArg(decimals) ==
    IF decimals = "" THEN Fin(6, 1) ELSE ParseInt(decimals)

\* the exponent of the sell conversion: Math.pow(10, 18)
SellExponent == 18

\* the integer m * 10^e, kept as mantissa and exponent (m not a multiple
\* of 10), so that amounts beyond 32 bits stay exact
RECURSIVE Dec(_, _)
Dec(m, e) ==
    IF m = 0 THEN [m |-> 0, e |-> 0]
    ELSE IF m % 10 = 0 THEN Dec(m \div 10, e + 1)
    ELSE [m |-> m, e |-> e]

\* BigInt(Math.floor(x * Math.pow(10, e))) for a finite x >= 0 and e >= 0
RECURSIVE FloorScaled(_, _)
FloorScaled(x, e) ==
    IF x.d = 1 THEN Dec(x.n, e)
    ELSE IF e = 0 THEN Dec(x.n \div x.d, 0)
    ELSE FloorScaled(Fin(x.n * 10, x.d), e - 1)

\* parseArgs: action: parsed.action || "buy"
TradeActionArg(flags) == IF "--sell" \in flags THEN "sell" ELSE "buy"

\* parseArgs: outcome: parsed.outcome || "YES"
TradeOutcomeArg(flags, value) ==
    IF "--outcome" \in flags THEN value ELSE "YES"

\* parseArgs: amount: parsed.amount || "0"
TradeAmountArg(flags, value) == IF "--amount" \in flags THEN value ELSE "0"

\* parseFloat(amount) is NaN
AmountIsNaN(amount) == amount = "abc"

\* if (!args.amount || parseFloat(args.amount) <= 0)
AmountRejected(amount) == amount = "" \/ amount = "0"

\* if (!args.info && !process.env.PRIVATE_KEY)
TradeKeyMissingAlways(flags, wallet) == wallet = "none"

TradeKeyMissing(flags, wallet) == "--info" \notin flags /\ wallet = "none"

\* --buy and --sell are alternatives
TradeFlagSets ==
    {f \in SUBSET {"--info", "--buy", "--sell", "--outcome", "--amount"} :
        ~({"--buy", "--sell"} \subseteq f)}

TradeArgLines ==
    {l \in ArgLines({"--info", "--buy", "--sell", "--outcome", "--amount"}) :
        l.flags \in TradeFlagSets \cup {{"--help"}}}

\* const amountRaw = BigInt(Math.floor(parseFloat(args.amount) * Math.pow(10, 18)))
SellAmountRawByDecimals(amount, decimals) ==
    FloorScaled(ParseFloat(amount), TradeDecimalsArg(decimals).n)

SellAmountRaw(amount, decimals) ==
    FloorScaled(ParseFloat(amount), SellExponent)

TradeMain(line, value, amount, decimals, wallet, rpcOk) ==
    LET r0 == [Started("trade", line, wallet,
                       TradeOutcomeArg(line.flags, value),
                       TradeAmountArg(line.flags, amount))
                  EXCEPT !.args.decimals = decimals]
        r1 == [r0 EXCEPT !.fetched = TRUE]
    IN  IF "--help" \in line.flags THEN Exit(r0, 0, "none", "")
        ELSE IF line.marketArg = "absent"
             THEN Exit(r0, 1, "validation", "--market is required")
        ELSE IF line.marketArg = "invalid"
             THEN Exit(r0, 1, "validation", "Invalid market address")
        ELSE IF TradeKeyMissing(line.flags, wallet)
             THEN Exit(r0, 1, "validation", "PRIVATE_KEY is required")
        ELSE IF ~rpcOk THEN Exit(r0, 1, "fetch", "TRANSPORT_ERROR")
        ELSE IF "--info" \in line.flags THEN Exit(r1, 0, "none", "")
        ELSE IF AmountRejected(r1.amount)
             THEN Exit(r1, 1, "validation", "--amount must be a positive number")
        ELSE IF r1.outcome \notin {"YES", "NO"}
             THEN Exit(r1, 1, "validation", "--outcome must be YES or NO")
        ELSE IF TradeActionArg(line.flags) = "buy"
             THEN Calling(r1, "buyTokensUsdc", r1.outcome = "YES")
        ELSE IF AmountIsNaN(r1.amount)
             THEN Exit(r1, 1, "exception", "RangeError")
        ELSE Calling([r1 EXCEPT !.amountRaw = SellAmountRaw(r1.amount, decimals)],
                     "burnDecisionTokensDerived", r1.outcome = "YES")

\* trade.ts started without --decimals
TradeRun ==
    /\ run.pc = "idle"
    /\ \E line \in TradeArgLines, value \in OutcomeValues,
          amount \in AmountValues, wallet \in Wallets, rpcOk \in BOOLEAN :
          run' = TradeMain(line, value, amount, "", wallet, rpcOk)
    /\ UNCHANGED <<priceVars, callVars, marketVars, helperVars>>

\* values tried for --decimals
TradeDecimalsValues == {"6", "9", "abc"}

\* trade.ts started with --decimals
TradeDecimalsRun ==
    /\ run.pc = "idle"
    /\ \E line \in TradeArgLines, value \in OutcomeValues,
          amount \in AmountValues, decimals \in TradeDecimalsValues,
          wallet \in Wallets, rpcOk \in BOOLEAN :
          /\ "--help" \notin line.flags
          /\ run' = TradeMain([line EXCEPT !.flags = @ \cup {"--decimals"}],
                              value, amount, decimals, wallet, rpcOk)
    /\ UNCHANGED <<priceVars, callVars, marketVars, helperVars>>

\* the buy or sell as it reaches the program, then the second price fetch
TradeCall ==
    /\ run.script = "trade"
    /\ run.pc = "call"
    /\ \E rpcOk \in BOOLEAN, funded \in BOOLEAN, rpcAgain \in BOOLEAN :
          IF ~AmountIsNaN(run.amount) /\ rpcOk /\ TradeAccepted /\ funded
          THEN /\ market' = IF run.call = "buyTokensUsdc"
                            THEN Bought(run.yesSide) ELSE Sold(run.yesSide)
               /\ run' = IF rpcAgain
                         THEN Exit([run EXCEPT !.traded = TRUE], 0, "none", "")
                         ELSE Exit([run EXCEPT !.traded = TRUE], 1, "fetch",
                                   "TRANSPORT_ERROR")
          ELSE /\ market' = market
               /\ run' = Exit(run, 1, "sdk",
                              IF AmountIsNaN(run.amount) THEN "VALIDATION_ERROR"
                              ELSE IF ~rpcOk THEN "TRANSPORT_ERROR"
                              ELSE IF ~TradeAccepted THEN TradeError
                              ELSE "Insufficient collateral balance")
    /\ UNCHANGED <<priceVars, callVars, now, helperVars>>

(***************************************************************************)
(* SDK calls made directly, as the skill's examples do.                    *)
(***************************************************************************)
\* a call made outside the scripts and its result
Direct(call, wallet, yes, ok, error) ==
    Exit([NoRun EXCEPT !.script = "sdk", !.wallet = wallet, !.call = call,
                       !.yesSide = yes, !.startedAt = now],
         IF ok THEN 0 ELSE 1, IF ok THEN "none" ELSE "sdk", error)

\* client.setMarketResolvable(market, true)
SetMarketResolvable ==
    /\ run.pc = "idle"
    /\ \E w \in {"oracle", "other"} :
          IF SetResolvableAccepted(w)
          THEN /\ market' = Activated
               /\ run' = Direct("setMarketResolvable", w, FALSE, TRUE, "")
          ELSE /\ market' = market
               /\ run' = Direct("setMarketResolvable", w, FALSE, FALSE,
                                IF now - market.creation_time > ActivationWindow
                                THEN "15-minute buffer expired"
                                ELSE "PROGRAM_ERROR")
    /\ UNCHANGED <<priceVars, callVars, now, helperVars>>

\* client.settleMarket({market, yesWinner}) at any time by any wallet
SettleMarketDirect ==
    /\ run.pc = "idle"
    /\ \E w \in {"oracle", "other"}, yesWinner \in BOOLEAN :
          SettleMarketCall(Direct("settleMarket", w, yesWinner, TRUE, ""), TRUE)
    /\ UNCHANGED <<priceVars, callVars, now, helperVars>>

\* the process is gone
RunEnd ==
    /\ run.pc = "exited"
    /\ run' = NoRun
    /\ UNCHANGED <<priceVars, callVars, marketVars, helperVars>>

NextMarket ==
    \/ TradingOpens
    \/ Tick
    \/ SetMarketResolvable
    \/ SettleMarketDirect
    \/ SettleRun
    \/ SettleCall
    \/ RedeemRun
    \/ RedeemCall
    \/ TradeRun
    \/ TradeCall
    \/ RunEnd

SpecMarket == InitMarket /\ [][NextMarket]_vars

\* trade.ts alone, with and without --decimals, on a market that stays open
NextTrade ==
    \/ TradingOpens
    \/ TradeRun
    \/ TradeDecimalsRun
    \/ TradeCall
    \/ RunEnd

SpecTrade == InitMarket /\ [][NextTrade]_vars

(***************************************************************************)
(* Properties of the lifecycle and of settle.ts, redeem.ts and trade.ts.   *)
(***************************************************************************)
Pools(m) ==
    <<m.market_reserves, m.yes_token_supply_minted, m.no_token_supply_minted>>

\* this step is the SDK call of the running script reaching the program
CallReturns(script) ==
    run.script = script /\ run.pc = "call" /\ run'.pc = "exited"

\* this step is a direct settleMarket call or the one settle.ts makes
SettleAttempt ==
    /\ run.pc \in {"idle", "call"}
    /\ run'.pc = "exited"
    /\ run'.call = "settleMarket"

\* C12: a standard V2 market changes state only to the immediate successor
\* in CREATED -> ACTIVE -> ENDED -> RESOLVED -> CLAIMED.
C12_ForwardOnly ==
    [][(market.oracle = "global" /\ market'.state # market.state)
          => Rank(market'.state) = Rank(market.state) + 1]_vars

C12_Witness ==
    /\ market.oracle = "global"
    /\ market.state = "CLAIMED"
    /\ market.winning_token_id = 2

\* C13: a custom-oracle market starts in CREATED, leaves it only to ACTIVE by
\* a successful setMarketResolvable within the 15-minute window, and once
\* the window has passed in CREATED it stays in CREATED.
C13_CustomOracleActivation ==
    /\ (market.oracle = "custom" => market.state = "CREATED")
    /\ [][market.oracle = "custom"
            => /\ (market.state = "CREATED" /\ market'.state # "CREATED")
                    => /\ market'.state = "ACTIVE"
                       /\ run'.call = "setMarketResolvable"
                       /\ run'.failed = "none"
                       /\ now - market.creation_time <= ActivationWindow
               /\ (market.state = "CREATED"
                     /\ now - market.creation_time > ActivationWindow)
                    => market'.state = "CREATED"]_vars

C13_Witness ==
    /\ market.oracle = "custom"
    /\ market.state = "CREATED"
    /\ now > market.creation_time + ActivationWindow
    /\ run.call = "setMarketResolvable"
    /\ run.wallet = "oracle"
    /\ run.failed = "sdk"
    /\ run.error = "15-minute buffer expired"

\* C14: a market becomes RESOLVED only from ENDED by a settleMarket of its
\* oracle at or after endTime; settle.ts reaches settleMarket only at or
\* after endTime and otherwise exits with code 1 without the call; a
\* settleMarket by another wallet or before endTime changes nothing.
C14_SettleOnlyAfterEnd ==
    /\ [](/\ (run.script = "settle" /\ run.pc = "call")
                => now >= market.end_time
          /\ (run.script = "settle" /\ run.fetched /\ ~run.info.resolved
                /\ "--status" \notin run.flags
                /\ run.startedAt < run.info.endTime)
                => (run.pc = "exited" /\ run.exitCode = 1
                      /\ run.call = "none"))
    /\ [][/\ (~market.resolved /\ market'.resolved)
                => /\ market.state = "ENDED"
                   /\ market'.state = "RESOLVED"
                   /\ SettleAttempt
                   /\ run'.wallet = "oracle"
                   /\ run'.failed = "none"
                   /\ now >= market.end_time
          /\ (SettleAttempt /\ (run'.wallet # "oracle" \/ now < market.end_time))
                => (market' = market /\ run'.failed = "sdk")]_vars

C14_Witness ==
    /\ run.script = "settle"
    /\ run.pc = "exited"
    /\ run.wallet = "oracle"
    /\ "--outcome" \in run.flags
    /\ run.fetched
    /\ market.state = "ACTIVE"
    /\ run.startedAt < run.info.endTime
    /\ run.exitCode = 1
    /\ run.call = "none"

\* C15: once endTime has been reached every buy or sell fails, with
\* 'Market not tradable: ended' when it reaches the program, and reserves
\* and supplies stay as they were.
C15_NoTradeAfterEnd ==
    [][(CallReturns("trade") /\ now >= market.end_time)
          => /\ run'.failed = "sdk"
             /\ run'.exitCode = 1
             /\ ~run'.traded
             /\ Pools(market') = Pools(market)
             /\ run'.error \notin {"VALIDATION_ERROR", "TRANSPORT_ERROR"}
                  => run'.error = "Market not tradable: ended"]_vars

C15_Witness ==
    /\ run.script = "trade"
    /\ run.pc = "exited"
    /\ run.call = "burnDecisionTokensDerived"
    /\ market.state = "RESOLVED"
    /\ now >= market.end_time
    /\ run.error = "Market not tradable: ended"
    /\ run.exitCode = 1

\* C16: redeem.ts reaches redeemPosition only when the fetched market is
\* resolved, exits with code 1 without the call when it is not, and a
\* resolved market stays resolved and redeemable.
C16_RedeemOnlyAfterSettlement ==
    /\ [](/\ (run.script = "redeem" /\ run.call = "redeemPosition")
                => (run.info.resolved /\ market.resolved)
          /\ (run.script = "redeem" /\ run.fetched /\ ~run.info.resolved)
                => (run.pc = "exited" /\ run.exitCode = 1
                      /\ run.call = "none")
          /\ market.state \in {"RESOLVED", "CLAIMED"} => RedeemAccepted)
    /\ [][market.resolved => market'.resolved]_vars

C16_Witness ==
    /\ run.script = "redeem"
    /\ run.pc = "call"
    /\ run.call = "redeemPosition"
    /\ market.state = "CLAIMED"
    /\ now = MaxTime

\* C19: settle.ts reaches settleMarket only when --outcome was supplied, and
\* trade.ts reaches a buy or sell only when --outcome, --amount and one of
\* --buy / --sell were supplied.
C19_RequiredFlagsSupplied ==
    /\ (run.script = "settle" /\ run.call = "settleMarket")
          => "--outcome" \in run.flags
    /\ (run.script = "trade"
          /\ run.call \in {"buyTokensUsdc", "burnDecisionTokensDerived"})
          => /\ {"--outcome", "--amount"} \subseteq run.flags
             /\ ("--buy" \in run.flags \/ "--sell" \in run.flags)

\* a run in a read-only mode
ReadOnlyRun ==
    \/ run.script = "trade" /\ "--info" \in run.flags
    \/ run.script = "settle" /\ "--status" \in run.flags

\* C20: a trade.ts --info or settle.ts --status run makes no buy, sell or
\* settle call, is not refused for a missing PRIVATE_KEY, and exits with
\* code 0 once the market data has been fetched.
C20_ReadOnlyModes ==
    ReadOnlyRun
        => /\ run.pc = "exited"
           /\ run.call = "none"
           /\ ~run.traded
           /\ run.error # "PRIVATE_KEY is required"
           /\ run.fetched => (run.exitCode = 0 /\ run.failed = "none")
           /\ ~run.fetched => run.failed # "none"

C20_Witness ==
    /\ run.script = "trade"
    /\ "--info" \in run.flags
    /\ run.wallet = "none"
    /\ run.fetched
    /\ run.exitCode = 0
    /\ market.state = "ACTIVE"

C20_WitnessStatus ==
    /\ run.script = "settle"
    /\ "--status" \in run.flags
    /\ run.wallet = "none"
    /\ run.fetched
    /\ run.exitCode = 0
    /\ market.state = "ENDED"

(***************************************************************************)
(* The market-creation scripts and market-data.ts.  A script that ends     *)
(* through process.exit(code) has that exit code; a main() that returns,   *)
(* or whose rejection is handed to console.error, ends with code 0; a      *)
(* rejection nobody handles ends the process with code 1 (Node.js 18+).    *)
(***************************************************************************)
HourSeconds == 3600

UnhandledRejectionExitCode == 1

\* values tried for the flags of create-market.ts ("" : flag not given)
QuestionValues == {"", "Will it rain?"}

DurationValues == {"", "24", "0", "-5", "abc", "24h"}

LiquidityValues == {"", "1", "0", "-5", "abc", "0.5", "1usdc"}

CollateralValues == {"", "usdc", "SOL", "mint", "bogus"}

DecimalsValues == {"", "6", "0", "-1", "abc"}

\* x || 0 for a number x
OrZero(x) == IF IsNaN(x) THEN 0 ELSE x.n

\* TOKENS[args.collateral.toUpperCase()]?.decimals; 0: not a known alias
TokenDecimals(collateral) ==
    CASE collateral \in {"usdc", "USDC", "USDT"} -> 6
      [] collateral = "SOL" -> 9
      [] OTHER -> 0

\* new PublicKey(args.collateral) succeeds
ValidMint(collateral) == collateral = "mint"

RECURSIVE IntPow10(_)
IntPow10(e) == IF e = 0 THEN 1 ELSE 10 * IntPow10(e - 1)

\* Math.pow(10, decimals)
Pow10(decimals) ==
    IF IsNaN(decimals) THEN NaN
    ELSE IF decimals.n >= 0 THEN Fin(IntPow10(decimals.n), 1)
    ELSE Fin(1, IntPow10(-decimals.n))

\* Math.floor(x) of a finite number
MathFloor(x) ==
    IF x.n >= 0 THEN x.n \div x.d ELSE -((-x.n + x.d - 1) \div x.d)

\* parseArgs of create-market.ts
CreateArgs(question, duration, liquidity, collateral, decimals, type) ==
    [question |-> question,
     durationHours |-> OrZero(ParseInt(duration)),
     liquidity |-> IF liquidity = "" THEN "0" ELSE liquidity,
     collateral |-> IF collateral = "" THEN "USDC" ELSE collateral,
     decimals |-> decimals,
     marketType |-> type,
     endTime |-> 0, liquidityAmount |-> 0]

\* if (!args.durationHours || args.durationHours <= 0)
DurationRejectedOnlyZero(durationHours) == durationHours = 0

DurationRejected(durationHours) == durationHours = 0 \/ durationHours <= 0

\* if (!args.liquidity || parseFloat(args.liquidity) <= 0)
LiquidityRejected(liquidity) ==
    liquidity = "" \/ JsLe(ParseFloat(liquidity), Zero)

\* decimals = args.decimals ?? (token.decimals | 9)
ResolvedDecimalsAliasFirst(a) ==
    IF TokenDecimals(a.collateral) # 0
    THEN Fin(TokenDecimals(a.collateral), 1)
    ELSE IF a.decimals # "" THEN ParseInt(a.decimals)
    ELSE Fin(9, 1)

ResolvedDecimals(a) ==
    IF a.decimals # "" THEN ParseInt(a.decimals)
    ELSE IF TokenDecimals(a.collateral) # 0
         THEN Fin(TokenDecimals(a.collateral), 1)
    ELSE Fin(9, 1)

\* parseFloat(args.liquidity) * Math.pow(10, decimals)
LiquidityScaled(a) == JsMul(ParseFloat(a.liquidity), Pow10(ResolvedDecimals(a)))

\* command-line flags present for the given values
CreateFlags(help, question, duration, liquidity, collateral, decimals, type) ==
    (IF help THEN {"--help"} ELSE {})
        \cup (IF question # "" THEN {"--question"} ELSE {})
        \cup (IF duration # "" THEN {"--duration"} ELSE {})
        \cup (IF liquidity # "" THEN {"--liquidity"} ELSE {})
        \cup (IF collateral # "" THEN {"--collateral"} ELSE {})
        \cup (IF decimals # "" THEN {"--decimals"} ELSE {})
        \cup (IF type = "p2p" THEN {"--type"} ELSE {})

\* main of create-market.ts up to its await
CreateMarketMain(flags, a, wallet) ==
    LET r0 == [NoRun EXCEPT !.script = "create-market", !.wallet = wallet,
                            !.flags = flags, !.startedAt = now, !.args = a]
        scaled == LiquidityScaled(a)
        r1 == [r0 EXCEPT !.args.endTime = now + a.durationHours * HourSeconds,
                         !.args.liquidityAmount = MathFloor(scaled)]
    IN  IF "--help" \in flags THEN Exit(r0, 0, "none", "")
        ELSE IF a.question = ""
             THEN Exit(r0, 1, "validation", "--question is required")
        ELSE IF DurationRejected(a.durationHours)
             THEN Exit(r0, 1, "validation", "--duration must be a positive number")
        ELSE IF LiquidityRejected(a.liquidity)
             THEN Exit(r0, 1, "validation", "--liquidity must be a positive number")
        ELSE IF wallet = "none"
             THEN Exit(r0, 1, "validation", "PRIVATE_KEY is required")
        ELSE IF TokenDecimals(a.collateral) = 0 /\ ~ValidMint(a.collateral)
             THEN Exit(r0, 1, "validation", "Invalid token")
        ELSE IF ~IsFinite(scaled)
             THEN Exit(r0, UnhandledRejectionExitCode, "exception", "RangeError")
        ELSE Calling(r1, IF a.marketType = "p2p" THEN "createP2PMarketGeneral"
                         ELSE "createMarket", FALSE)

CreateMarketRun ==
    /\ run.pc = "idle"
    /\ \E help \in BOOLEAN, question \in QuestionValues,
          duration \in DurationValues, liquidity \in LiquidityValues,
          collateral \in CollateralValues, decimals \in DecimalsValues,
          type \in {"v2", "p2p"}, wallet \in Wallets :
          run' = CreateMarketMain(
                    CreateFlags(help, question, duration, liquidity,
                                collateral, decimals, type),
                    CreateArgs(question, duration, liquidity, collateral,
                               decimals, type),
                    wallet)
    /\ UNCHANGED <<priceVars, callVars, marketVars, helperVars>>

\* the creation call settles; a rejection reaches the catch of main
CreateMarketCall ==
    /\ run.script = "create-market"
    /\ run.pc = "call"
    /\ \E ok \in BOOLEAN :
          /\ run' = IF ok THEN Exit(run, 0, "none", "")
                    ELSE Exit(run, 1, "sdk", "PROGRAM_ERROR")
          /\ market' = IF ok /\ run.call = "createMarket"
                       THEN CreatedMarket("global", run.args.endTime)
                       ELSE market
    /\ UNCHANGED <<priceVars, callVars, now, helperVars>>

(***************************************************************************)
(* create-market-x.ts, create-market-yt.ts, create-market-custom.ts:       *)
(* fixed parameters, main().catch(console.error)                           *)
(***************************************************************************)
FixedScripts ==
    {"create-market-x", "create-market-yt", "create-market-custom"}

FixedCall(script) ==
    CASE script = "create-market-x" -> "createMarketTwitter"
      [] script = "create-market-yt" -> "createMarketYoutube"
      [] OTHER -> "createMarketWithCustomOracle"

\* createMarketWithCustomOracle names the wallet as settler
FixedOracle(script) ==
    IF script = "create-market-custom" THEN "custom" ELSE "global"

\* BigInt(Math.floor(Date.now() / 1000) + 30 * 24 * 60 * 60)
FixedEndTime == now + 30 * 24 * HourSeconds

\* main().catch(console.error): the rejection is printed, the process ends
ConsoleErrorExitCode == 0

FixedMain(script, wallet) ==
    LET r0 == [NoRun EXCEPT !.script = script, !.wallet = wallet,
                            !.startedAt = now]
    IN  IF wallet = "none"
        THEN Exit(r0, 1, "validation", "PRIVATE_KEY environment variable is missing")
        ELSE Calling(r0, FixedCall(script), FALSE)

FixedRun ==
    /\ run.pc = "idle"
    /\ \E script \in FixedScripts, wallet \in Wallets :
          run' = FixedMain(script, wallet)
    /\ UNCHANGED <<priceVars, callVars, marketVars, helperVars>>

FixedCallReturn ==
    /\ run.script \in FixedScripts
    /\ run.pc = "call"
    /\ \E ok \in BOOLEAN :
          /\ run' = IF ok THEN Exit(run, 0, "none", "")
                    ELSE Exit(run, ConsoleErrorExitCode, "sdk", "PROGRAM_ERROR")
          /\ market' = IF ok
                       THEN CreatedMarket(FixedOracle(run.script), FixedEndTime)
                       ELSE market
    /\ UNCHANGED <<priceVars, callVars, now, helperVars>>

(***************************************************************************)
(* create-market-p2p.ts: the devnet and the mainnet script                 *)
(***************************************************************************)
P2PScripts == {"create-market-p2p-devnet", "create-market-p2p"}

\* main().catch of the script: the devnet one exits with 1, the mainnet one
\* hands the rejection to console.error
P2PRejectionExitCode(script) ==
    IF script = "create-market-p2p-devnet" THEN 1 ELSE ConsoleErrorExitCode

\* module top level and main up to the creation call
P2PMain(script, wallet, amountOk, rpcOk, funded) ==
    LET r0 == [NoRun EXCEPT !.script = script, !.wallet = wallet,
                            !.startedAt = now]
    IN  IF wallet = "none"
        THEN Exit(r0, 1, "validation", "PRIVATE_KEY is required")
        ELSE IF ~amountOk
             THEN Exit(r0, UnhandledRejectionExitCode, "exception", "SyntaxError")
        ELSE IF ~rpcOk
             THEN IF script = "create-market-p2p-devnet"
                  THEN Exit(r0, 1, "fetch", "Token account not found")
                  ELSE Exit(r0, P2PRejectionExitCode(script), "fetch",
                            "TRANSPORT_ERROR")
        ELSE IF ~funded THEN Exit(r0, 1, "validation", "Insufficient balance")
        ELSE Calling([r0 EXCEPT !.fetched = TRUE],
                     IF script = "create-market-p2p-devnet"
                     THEN "createMarketV3" ELSE "createP2PMarketGeneral", FALSE)

P2PRun ==
    /\ run.pc = "idle"
    /\ \E script \in P2PScripts, wallet \in Wallets, amountOk \in BOOLEAN,
          rpcOk \in BOOLEAN, funded \in BOOLEAN :
          run' = P2PMain(script, wallet, amountOk, rpcOk, funded)
    /\ UNCHANGED <<priceVars, callVars, marketVars, helperVars>>

\* the mainnet script catches the rejection itself and exits with 1
P2PCallReturn ==
    /\ run.script \in P2PScripts
    /\ run.pc = "call"
    /\ \E ok \in BOOLEAN :
          run' = IF ok THEN Exit(run, 0, "none", "")
                 ELSE Exit(run, 1, "sdk", "PROGRAM_ERROR")
    /\ UNCHANGED <<priceVars, callVars, marketVars, helperVars>>

(***************************************************************************)
(* market-data.ts                                                          *)
(***************************************************************************)
\* 4. Determine market state (endTime and the clock in the same unit)
MarketStateSummaryResolvableFirst(fetchOk, info, t) ==
    IF ~fetchOk THEN "Unknown"
    ELSE IF ~info.resolvable THEN "NOT RESOLVABLE"
    ELSE IF info.resolved THEN "RESOLVED"
    ELSE IF t > info.endTime THEN "ENDED (pending resolution)"
    ELSE "ACTIVE"

MarketStateSummary(fetchOk, info, t) ==
    IF ~fetchOk THEN "Unknown"
    ELSE IF info.resolved THEN "RESOLVED"
    ELSE IF ~info.resolvable THEN "NOT RESOLVABLE"
    ELSE IF t > info.endTime THEN "ENDED (pending resolution)"
    ELSE "ACTIVE"

\* getComprehensiveMarketInfo: each fetch failure is printed and swallowed
MarketDataMain(fetchOk, criteriaOk, dataOk) ==
    LET r0 == [NoRun EXCEPT !.script = "market-data", !.startedAt = now,
                            !.fetched = fetchOk,
                            !.info = IF fetchOk THEN MarketInfo ELSE NoInfo,
                            !.printed = MarketStateSummary(fetchOk, MarketInfo, now)]
    IN  IF fetchOk /\ criteriaOk /\ dataOk THEN Exit(r0, 0, "none", "")
        ELSE Exit(r0, 0, "fetch", "TRANSPORT_ERROR")

MarketDataRun ==
    /\ run.pc = "idle"
    /\ \E fetchOk \in BOOLEAN, criteriaOk \in BOOLEAN, dataOk \in BOOLEAN :
          run' = MarketDataMain(fetchOk, criteriaOk, dataOk)
    /\ UNCHANGED <<priceVars, callVars, marketVars, helperVars>>

InitCreate ==
    PriceIdle /\ CallsIdle /\ MarketIdle /\ RunIdle /\ HelpersIdle

NextCreate ==
    \/ CreateMarketRun
    \/ CreateMarketCall
    \/ FixedRun
    \/ FixedCallReturn
    \/ P2PRun
    \/ P2PCallReturn
    \/ MarketDataRun
    \/ RunEnd

SpecCreate == InitCreate /\ [][NextCreate]_vars

(***************************************************************************)
(* Properties of the creation scripts and market-data.ts.                  *)
(***************************************************************************)
\* C17: a script that ended after a failed validation, SDK call or data
\* fetch has a non-zero exit code.
C17_FailureExitsNonZero ==
    (run.pc = "exited" /\ run.failed # "none") => run.exitCode # 0

\* one of the four checks of create-market.ts fails: the question is missing
\* or empty, the duration or the liquidity is missing, not a number or not
\* positive, or PRIVATE_KEY is unset
CreateArgsInvalid ==
    \/ run.args.question = ""
    \/ run.args.durationHours <= 0
    \/ IsNaN(ParseFloat(run.args.liquidity))
    \/ JsLe(ParseFloat(run.args.liquidity), Zero)
    \/ run.wallet = "none"

CreateCallIssued == run.call \in {"createMarket", "createP2PMarketGeneral"}

\* C18 as stated: create-market.ts exits with code 1 without a creation call
\* whenever one of the four checks fails, and issues a creation call only
\* when all four pass.
C18_InvalidArgumentsExitOne ==
    run.script = "create-market"
        => /\ CreateArgsInvalid
                => (run.pc = "exited" /\ run.exitCode = 1 /\ ~CreateCallIssued)
           /\ CreateCallIssued => ~CreateArgsInvalid

\* C18 amended: the same for every run without --help.
C18_InvalidArgumentsExitOneUnlessHelp ==
    (run.script = "create-market" /\ "--help" \notin run.flags)
        => /\ CreateArgsInvalid
                => (run.pc = "exited" /\ run.exitCode = 1 /\ ~CreateCallIssued)
           /\ CreateCallIssued => ~CreateArgsInvalid

C18_Witness ==
    /\ run.script = "create-market"
    /\ "--help" \notin run.flags
    /\ run.args.question # ""
    /\ run.args.durationHours > 0
    /\ run.args.liquidity = "abc"
    /\ run.wallet # "none"
    /\ run.pc = "exited"
    /\ run.failed = "exception"
    /\ run.exitCode = 1
    /\ run.call = "none"

(***************************************************************************)
(* Properties of conversions, derived states and the settlement path.      *)
(***************************************************************************)
\* C21: the raw amount trade.ts passes to burnDecisionTokensDerived when
\* selling N tokens is floor(N * 10^d), d the --decimals value, 6 by default.
C21_SellRawAmountUsesDecimals ==
    (run.script = "trade" /\ run.call = "burnDecisionTokensDerived"
        /\ IsFinite(TradeDecimalsArg(run.args.decimals)))
        => run.amountRaw = SellAmountRawByDecimals(run.amount, run.args.decimals)

(***************************************************************************)
(* executeWithRetry(action, maxRetries, timeoutMs).  Each attempt starts   *)
(* one invocation of action and races it against a timer; Promise.race     *)
(* settles with whichever settles first and leaves the other pending.      *)
(***************************************************************************)
\* the largest maxRetries tried
MaxRetries == 4

RECURSIVE Pow2(_)
Pow2(e) == IF e = 0 THEN 1 ELSE 2 * Pow2(e - 1)

\* const delay = Math.pow(2, attempt - 1) * 1000, in seconds
RetryDelayOfNext(attempt) == Pow2(attempt)

RetryDelay(attempt) == Pow2(attempt - 1)

\* the loop body starts attempt k: action() is invoked, the race is awaited
StartAttempt(r, k) ==
    [r EXCEPT !.pc = "racing", !.attempt = k,
              !.inFlight = @ \cup {k}]

\* catch (error): throw on the last attempt, otherwise wait
Caught(r, error) ==
    IF r.attempt = r.maxRetries
    THEN [r EXCEPT !.pc = "done", !.lastError = error,
                   !.races = Append(@, error.kind),
                   !.outcome = "threw", !.value = error]
    ELSE [r EXCEPT !.pc = "waiting", !.lastError = error,
                   !.races = Append(@, error.kind)]

\* the call: the for loop starts, or is skipped when maxRetries < 1
RetryCall ==
    /\ retry.pc = "idle"
    /\ \E m \in 0..MaxRetries :
          retry' = IF 1 <= m
                   THEN StartAttempt([NoRetry EXCEPT !.maxRetries = m], 1)
                   ELSE [NoRetry EXCEPT
                           !.maxRetries = m, !.pc = "done",
                           !.outcome = "threw",
                           !.value = [kind |-> "Max retries exceeded",
                                      attempt |-> 0]]
    /\ UNCHANGED <<priceVars, callVars, marketVars, run, safeOp>>

\* the invocation of attempt k resolves; only the race in progress sees it
ActionResolves(k) ==
    /\ k \in retry.inFlight
    /\ retry' =
         LET r == [retry EXCEPT !.inFlight = @ \ {k}]
         IN  IF retry.pc = "racing" /\ retry.attempt = k
             THEN [r EXCEPT !.pc = "done", !.outcome = "returned",
                            !.races = Append(@, "result"),
                            !.value = [kind |-> "result", attempt |-> k]]
             ELSE r
    /\ UNCHANGED <<priceVars, callVars, marketVars, run, safeOp>>

\* the invocation of attempt k rejects
ActionRejects(k) ==
    /\ k \in retry.inFlight
    /\ retry' =
         LET r == [retry EXCEPT !.inFlight = @ \ {k}]
         IN  IF retry.pc = "racing" /\ retry.attempt = k
             THEN Caught(r, [kind |-> "Error", attempt |-> k])
             ELSE r
    /\ UNCHANGED <<priceVars, callVars, marketVars, run, safeOp>>

\* setTimeout(() => reject(new Error('Timeout')), timeoutMs) fires first;
\* the invocation of action is not cancelled
TimeoutFires ==
    /\ retry.pc = "racing"
    /\ retry' = Caught(retry, [kind |-> "Timeout", attempt |-> retry.attempt])
    /\ UNCHANGED <<priceVars, callVars, marketVars, run, safeOp>>

\* await new Promise(r => setTimeout(r, delay)), then the next attempt
DelayElapses ==
    /\ retry.pc = "waiting"
    /\ retry' = StartAttempt(
                   [retry EXCEPT !.waited = Append(@, RetryDelay(retry.attempt))],
                   retry.attempt + 1)
    /\ UNCHANGED <<priceVars, callVars, marketVars, run, safeOp>>

ActionSettles == \E k \in 1..MaxRetries : ActionResolves(k) \/ ActionRejects(k)

InitRetry == PriceIdle /\ CallsIdle /\ MarketIdle /\ RunIdle /\ HelpersIdle

NextRetry ==
    \/ RetryCall
    \/ ActionSettles
    \/ TimeoutFires
    \/ DelayElapses

SpecRetry == InitRetry /\ [][NextRetry]_vars

\* timers fire, and the call is made
SpecRetryFair ==
    /\ SpecRetry
    /\ WF_vars(TimeoutFires)
    /\ WF_vars(DelayElapses)

(***************************************************************************)
(* Properties of executeWithRetry.                                         *)
(***************************************************************************)
RetryRunning == retry.pc \in {"racing", "waiting"}

RetryDone == retry.pc = "done"

\* what holds of the attempts made so far and of the final outcome
RetryAttemptsBounded ==
    /\ retry.attempt <= retry.maxRetries
    /\ Len(retry.races) <= retry.attempt
    /\ Len(retry.waited) = (IF retry.attempt = 0 THEN 0 ELSE retry.attempt - 1)
    /\ \A k \in 1..Len(retry.waited) : retry.waited[k] = 2 ^ (k - 1)
    /\ retry.outcome = "returned"
         => /\ Len(retry.races) = retry.attempt
            /\ retry.races[retry.attempt] = "result"
            /\ \A k \in 1..(retry.attempt - 1) : retry.races[k] # "result"
            /\ retry.value = [kind |-> "result", attempt |-> retry.attempt]
    /\ retry.outcome = "threw"
         => /\ retry.attempt = retry.maxRetries
            /\ Len(retry.races) = retry.maxRetries
            /\ \A k \in 1..retry.maxRetries : retry.races[k] # "result"
            /\ retry.maxRetries >= 1
                 => retry.value = [kind |-> retry.races[retry.maxRetries],
                                   attempt |-> retry.maxRetries]

\* C22: executeWithRetry makes at most maxRetries attempts and ends; it
\* returns the result of the first attempt whose race succeeds and starts no
\* attempt after it; when every attempt fails or times out it throws the
\* last attempt's error; the wait before attempt k+1 is 2^(k-1) seconds.
C22_RetryTerminates ==
    /\ []RetryAttemptsBounded
    /\ [][RetryDone => (/\ retry'.attempt = retry.attempt
                        /\ retry'.inFlight \subseteq retry.inFlight
                        /\ retry'.outcome = retry.outcome
                        /\ retry'.value = retry.value)]_vars
    /\ (RetryRunning ~> RetryDone)

C22_Witness ==
    /\ RetryDone
    /\ retry.maxRetries = 3
    /\ retry.races = <<"Error", "Timeout", "Timeout">>
    /\ retry.waited = <<1, 2>>
    /\ retry.outcome = "threw"
    /\ retry.value = [kind |-> "Timeout", attempt |-> 3]

\* C29: at most one invocation of action is in flight at any time.
C29_OneInvocationInFlight == Cardinality(retry.inFlight) <= 1

(***************************************************************************)
(* safeMarketOperation(operation, operationName).  The operation either    *)
(* resolves or rejects with some value: an SDK error, another Error, or    *)
(* any other value (a string, null, undefined).                            *)
(***************************************************************************)
\* what the operation rejects with ("none": it resolves)
ThrownValues ==
    {"none", "TransportError", "ProgramError", "ValidationError", "Error",
     "string", "null", "undefined"}

ErrorObjects == {"TransportError", "ProgramError", "ValidationError", "Error"}

\* error.message ("" : the property is undefined)
MessageValues ==
    {"", "failed", "Blockhash not found", "Market not tradable: ended",
     "Blockhash not found; Market not tradable: ended"}

\* error.programErrorCode (-1: undefined)
ProgramErrorCodes == {-1, 0, 6000}

\* the operations tried: a rejection value with its properties
Operations ==
    {[thrown |-> t, message |-> m, programErrorCode |-> c] :
        t \in ErrorObjects, m \in MessageValues, c \in ProgramErrorCodes}
    \cup {[thrown |-> t, message |-> "", programErrorCode |-> -1] :
            t \in ThrownValues \ ErrorObjects}

\* error.message?.includes(text)
MessageIncludes(message, text) ==
    CASE text = "Blockhash" ->
            message \in {"Blockhash not found",
                         "Blockhash not found; Market not tradable: ended"}
      [] text = "Market not tradable" ->
            message \in {"Market not tradable: ended",
                         "Blockhash not found; Market not tradable: ended"}
      [] OTHER -> FALSE

\* `PROGRAM_ERROR_${error.programErrorCode ?? 'UNKNOWN'}`
ProgramErrorText(c) ==
    CASE c = -1 -> "PROGRAM_ERROR_UNKNOWN"
      [] c = 0 -> "PROGRAM_ERROR_0"
      [] OTHER -> "PROGRAM_ERROR_6000"

\* reading error.message of null or undefined throws a TypeError
MessageReadThrows(thrown) == thrown \in {"null", "undefined"}

Failure(op, code, retryable) ==
    [NoSafeOp EXCEPT !.pc = "done", !.thrown = op.thrown,
                     !.message = op.message,
                     !.programErrorCode = op.programErrorCode,
                     !.code = code, !.retryable = retryable]

\* the body of safeMarketOperation
SafeMarketOperation(op) ==
    IF op.thrown = "none"
    THEN [NoSafeOp EXCEPT !.pc = "done", !.ok = TRUE]
    ELSE IF MessageReadThrows(op.thrown)
    THEN [Failure(op, "", FALSE) EXCEPT !.threw = "TypeError"]
    ELSE IF op.thrown = "TransportError"
            \/ MessageIncludes(op.message, "Blockhash")
    THEN Failure(op, "TRANSPORT_ERROR", TRUE)
    ELSE IF op.thrown = "ProgramError"
    THEN Failure(op, ProgramErrorText(op.programErrorCode), FALSE)
    ELSE IF op.thrown = "ValidationError"
    THEN Failure(op, "VALIDATION_ERROR", FALSE)
    ELSE IF MessageIncludes(op.message, "Market not tradable")
    THEN Failure(op, "MARKET_ENDED", FALSE)
    ELSE Failure(op, "UNKNOWN", FALSE)

\* a caller invokes safeMarketOperation, for the first time or after an
\* earlier invocation has finished; the operation is under way
SafeOpCall ==
    /\ safeOp.pc \in {"idle", "done"}
    /\ \E op \in Operations :
          safeOp' = [NoSafeOp EXCEPT !.pc = "awaiting", !.thrown = op.thrown,
                                     !.message = op.message,
                                     !.programErrorCode = op.programErrorCode]
    /\ UNCHANGED <<priceVars, callVars, marketVars, run, retry>>

\* the operation settles and safeMarketOperation returns or throws
SafeOpSettles ==
    /\ safeOp.pc = "awaiting"
    /\ safeOp' = SafeMarketOperation(
                    [thrown |-> safeOp.thrown, message |-> safeOp.message,
                     programErrorCode |-> safeOp.programErrorCode])
    /\ UNCHANGED <<priceVars, callVars, marketVars, run, retry>>

InitSafeOp == PriceIdle /\ CallsIdle /\ MarketIdle /\ RunIdle /\ HelpersIdle

NextSafeOp == SafeOpCall \/ SafeOpSettles

SpecSafeOp == InitSafeOp /\ [][NextSafeOp]_vars

SafeOpCodes ==
    {"TRANSPORT_ERROR", "VALIDATION_ERROR", "MARKET_ENDED", "UNKNOWN"}
        \cup {ProgramErrorText(c) : c \in ProgramErrorCodes}

\* C23: safeMarketOperation never throws; it returns ok when the operation
\* succeeds and otherwise one of the five codes; retryable is true exactly
\* for a TransportError or a message containing 'Blockhash', which is
\* classified TRANSPORT_ERROR before every other class.
C23_SafeOperationNeverThrows ==
    safeOp.pc = "done"
        => /\ safeOp.threw = "none"
           /\ safeOp.ok <=> safeOp.thrown = "none"
           /\ ~safeOp.ok
                => /\ safeOp.code \in SafeOpCodes
                   /\ safeOp.retryable
                        <=> (safeOp.thrown = "TransportError"
                               \/ MessageIncludes(safeOp.message, "Blockhash"))
                   /\ safeOp.retryable <=> safeOp.code = "TRANSPORT_ERROR"

(***************************************************************************)
(* market-data.ts reads the account at a fixed address: whatever the       *)
(* oracle and the program have made of it.  setMarketResolvable takes the  *)
(* flag as a parameter, so every combination of the two flags and of the   *)
(* end time is a possible account.                                         *)
(***************************************************************************)
OnChainAccounts ==
    {[CreatedMarket(o, e) EXCEPT
         !.resolved = rd, !.resolvable = rb,
         !.winning_token_id = IF rd THEN w ELSE 0,
         !.state = IF rd THEN "RESOLVED"
                   ELSE IF rb THEN LiveState(0, e) ELSE "CREATED"] :
       o \in {"global", "custom"}, e \in 0..MaxTime, rd \in BOOLEAN,
       rb \in BOOLEAN, w \in {1, 2}}

InitMarketData ==
    /\ PriceIdle
    /\ CallsIdle
    /\ now = 0
    /\ market \in OnChainAccounts
    /\ run = NoRun
    /\ HelpersIdle

\* one run of the script, at any time
NextMarketData == Tick \/ MarketDataRun

SpecMarketData == InitMarketData /\ [][NextMarketData]_vars

MarketDataExited == run.script = "market-data" /\ run.pc = "exited"

\* C24: market-data.ts prints exactly one state, by strict priority:
\* Unknown iff the market fetch failed; else RESOLVED if resolved; else
\* NOT RESOLVABLE if not resolvable; else ENDED (pending resolution) if the
\* time is strictly after endTime; else ACTIVE.
C24_MarketStatePriority ==
    MarketDataExited
        => /\ run.printed = "Unknown" <=> ~run.fetched
           /\ run.fetched
                => /\ market.resolved => run.printed = "RESOLVED"
                   /\ ~market.resolved /\ ~market.resolvable
                        => run.printed = "NOT RESOLVABLE"
                   /\ ~market.resolved /\ market.resolvable
                        /\ now > market.end_time
                        => run.printed = "ENDED (pending resolution)"
                   /\ ~market.resolved /\ market.resolvable
                        /\ now <= market.end_time
                        => run.printed = "ACTIVE"

C24_Witness ==
    /\ MarketDataExited
    /\ run.fetched
    /\ market.resolved
    /\ ~market.resolvable
    /\ now > market.end_time
    /\ run.printed = "RESOLVED"

C24_WitnessEnded ==
    /\ MarketDataExited
    /\ run.printed = "ENDED (pending resolution)"
    /\ now = market.end_time + 1

(***************************************************************************)
(* More properties of settle.ts.                                           *)
(***************************************************************************)
SettleFetchedResolved ==
    run.script = "settle" /\ run.fetched /\ run.info.resolved

SettleReportsWinner ==
    SettleFetchedResolved
        => /\ run.pc = "exited"
           /\ run.exitCode = 0
           /\ run.call = "none"
           /\ run.printed = (CASE run.info.winningTokenId = 1 -> "YES"
                               [] run.info.winningTokenId = 2 -> "NO"
                               [] OTHER -> "NONE")

WinnerKept ==
    market.resolved
        => /\ market'.resolved
           /\ market'.winning_token_id = market.winning_token_id

\* C25: when the fetched market is already resolved, settle.ts prints the
\* stored winner, makes no settleMarket call whatever --outcome says and
\* exits 0; no step of a settle.ts run changes the winner of a resolved
\* market.
C25_SettlementFinal ==
    /\ []SettleReportsWinner
    /\ [][(run.script = "settle" \/ run'.script = "settle") => WinnerKept]_vars

\* a run asking for the other outcome on a market settled YES
C25_Witness ==
    /\ SettleFetchedResolved
    /\ run.pc = "exited"
    /\ run.outcome = "NO"
    /\ "--status" \notin run.flags
    /\ market.winning_token_id = 1
    /\ run.printed = "YES"
    /\ run.exitCode = 0

SettleInvoked == run.script = "settle" /\ run.call = "settleMarket"

\* C28: whenever settle.ts invokes settleMarket the market it read is
\* unresolved, the time is at or after endTime and the resolvable flag is
\* true: the canSettle value --status reports for that state is true.
C28_SettleAgreesWithStatus ==
    SettleInvoked
        => /\ ~run.info.resolved
           /\ run.startedAt >= run.info.endTime
           /\ run.info.resolvable
           /\ CanSettleText(run.startedAt, run.info) = "Can Settle: true"

(***************************************************************************)
(* More properties of create-market.ts.                                    *)
(***************************************************************************)
CreateRunNoHelp == run.script = "create-market" /\ "--help" \notin run.flags

\* the decimals the documentation promises for a collateral argument
DocumentedDecimals(flags, a) ==
    IF "--decimals" \in flags THEN ParseInt(a.decimals)
    ELSE IF a.collateral \in {"usdc", "USDC", "USDT"} THEN Fin(6, 1)
    ELSE IF a.collateral = "SOL" THEN Fin(9, 1)
    ELSE Fin(9, 1)

KnownCollateral(c) == c \in {"usdc", "USDC", "USDT", "SOL", "mint"}

\* floor(x * 10^d) for a finite x > 0 and an integer d
FloorTimesPow10(x, d) ==
    IF d >= 0 THEN (x.n * 10 ^ d) \div x.d ELSE x.n \div (x.d * 10 ^ (-d))

C26_WitnessOverride ==
    /\ CreateRunNoHelp
    /\ CreateCallIssued
    /\ run.args.collateral = "SOL"
    /\ run.args.decimals = "6"
    /\ run.args.liquidity = "1"
    /\ run.args.liquidityAmount = 1000000

\* C27: every creation call issued by create-market.ts carries a raw
\* liquidity greater than 0 and an endTime later than the time of the call.
C27_CreationCallPositive ==
    (run.script = "create-market" /\ CreateCallIssued)
        => /\ run.args.liquidityAmount > 0
           /\ run.args.endTime > run.startedAt

(***************************************************************************)
(* More properties of the price formulas.                                  *)
(***************************************************************************)
\* the snapshot before this one had the same reserves and the two supplies
\* the other way round
SuppliesSwapped ==
    /\ hasPrev
    /\ prevRaw = <<marketReservesRaw, noTokenSupplyRaw, yesTokenSupplyRaw>>

\* an/ad < bn/bd for positive fractions, by integer parts and then the
\* reciprocals of the remainders (no cross product)
RECURSIVE FractionLess(_, _, _, _)
FractionLess(an, ad, bn, bd) ==
    IF an \div ad # bn \div bd THEN an \div ad < bn \div bd
    ELSE IF bn % bd = 0 THEN FALSE
    ELSE IF an % ad = 0 THEN TRUE
    ELSE FractionLess(bd, bn % bd, ad, an % ad)

\* a < b for two positive finite numbers
PositiveLess(a, b) ==
    /\ IsFinite(a) /\ IsFinite(b)
    /\ a.n > 0 /\ b.n > 0
    /\ FractionLess(a.n, a.d, b.n, b.d)

\* C30: with positive reserves and supplies, yesPrice * noSupply equals
\* noPrice * yesSupply; the side with the larger supply has the strictly
\* larger price and the strictly smaller multiplier; swapping the two
\* supplies swaps the YES and NO outputs.
C30_PriceSupplyProportion ==
    (Priced /\ ValidSnapshot /\ marketReservesRaw > 0 /\ BothSuppliesPositive)
        => /\ JsMul(priceData.yesPrice, priceData.noTokenSupply)
                = JsMul(priceData.noPrice, priceData.yesTokenSupply)
           /\ yesTokenSupplyRaw > noTokenSupplyRaw
                => /\ PositiveLess(priceData.noPrice, priceData.yesPrice)
                   /\ PositiveLess(priceData.yesMultiplier, priceData.noMultiplier)
           /\ noTokenSupplyRaw > yesTokenSupplyRaw
                => /\ PositiveLess(priceData.yesPrice, priceData.noPrice)
                   /\ PositiveLess(priceData.noMultiplier, priceData.yesMultiplier)
           /\ SuppliesSwapped
                => /\ priceData.yesPrice = prevData.noPrice
                   /\ priceData.noPrice = prevData.yesPrice
                   /\ priceData.yesMultiplier = prevData.noMultiplier
                   /\ priceData.noMultiplier = prevData.yesMultiplier

\* 1000 / 650 / 350 after 1000 / 350 / 650
C30_Witness ==
    /\ Priced
    /\ marketReservesRaw = ScenarioReservesRaw
    /\ yesTokenSupplyRaw = ScenarioYesRaw
    /\ noTokenSupplyRaw = ScenarioNoRaw
    /\ SuppliesSwapped
    /\ PositiveLess(priceData.noPrice, priceData.yesPrice)
    /\ priceData.yesPrice = prevData.noPrice
    /\ PositiveLess(priceData.yesMultiplier, priceData.noMultiplier)
====
